---- MODULE Spec2Model ----
(***************************************************************************)
(* A model of the qmf crate: the two-tap Haar filter (haar.rs), the        *)
(* stateful up/down samplers (sampling.rs) and the recursive octave filter *)
(* bank (bands.rs).                                                        *)
(*                                                                         *)
(* Sample values are fixed-point numbers: the integer v stands for the     *)
(* real v / One.  Every value the bank computes from integer samples is a  *)
(* dyadic rational of small magnitude, on which f32/f64 arithmetic is      *)
(* exact, so exact arithmetic on these numbers is the arithmetic of the    *)
(* code for T = f32/f64.                                                   *)
(*                                                                         *)
(* An Option<T> is a sequence: << >> is None, <<v>> is Some(v).            *)
(***************************************************************************)
EXTENDS Integers, Sequences, FiniteSets, TLC

\* ------------------------------------------------------------- bounds
\* number of fractional bits of a sample value (at least the deepest bank)
FracBits == 8
One == 2 ^ FracBits
Half == One \div 2

\* a * b for fixed-point a, b
Mul(a, b) == (a * b) \div One

None == << >>
Some(v) == <<v>>
is_some(o) == Len(o) > 0

\* ------------------------------------------------------------ haar.rs

\* HaarFilter::new(h0, h1): prev = 0, taps = [h0, h1]
HaarFilterNew(h0, h1) == [prev |-> 0, taps |-> <<h0, h1>>]

\* consume that leaves the filter's memory as it was
consume_keeps_prev(f, x) ==
    [ret |-> Mul(f.taps[1], x) + Mul(f.taps[2], f.prev), f |-> f]

\* consume with the two taps exchanged
consume_swapped_taps(f, x) ==
    [ret |-> Mul(f.taps[2], x) + Mul(f.taps[1], f.prev), f |-> [f EXCEPT !.prev = x]]

\* HaarFilter::consume: ret = taps[0]*x + taps[1]*prev; prev = x
consume(f, x) ==
    [ret |-> Mul(f.taps[1], x) + Mul(f.taps[2], f.prev),
     f   |-> [f EXCEPT !.prev = x]]

\* ------------------------------------------------------------- loops

\* `LET v == e IN Then(v)` with e evaluated once, before Then
Bind(e, Then(_)) == CHOOSE y \in {Then(v) : v \in {e}} : TRUE

\* A loop of the code whose body runs for i = lo, lo+1, ..., hi in this
\* order, as the state it ends in.  The range is halved to keep the depth
\* of the evaluation small; the body still runs once per i, in order.
RECURSIVE Iterate(_, _, _, _)
Iterate(Body(_, _), st, lo, hi) ==
    IF lo > hi THEN st
    ELSE IF lo = hi THEN Body(st, lo)
    ELSE Bind(Iterate(Body, st, lo, (lo + hi) \div 2), LAMBDA left :
              Iterate(Body, left, (lo + hi) \div 2 + 1, hi))

\* -------------------------------------------------------- sampling.rs

\* The source iterator I handed to a sampler (vec::IntoIter, slice::Iter):
\* the elements and how many of them have been taken.
IterNew(src) == [src |-> src, pos |-> 0]

\* I::next
IterNext(it) ==
    IF it.pos < Len(it.src)
    THEN [ret |-> Some(it.src[it.pos + 1]), it |-> [it EXCEPT !.pos = it.pos + 1]]
    ELSE [ret |-> None, it |-> it]

\* UpSampler::new(scale, with): count = 0
UpSamplerNew(scale, with) == [scale |-> scale, with |-> with, count |-> 0]

\* UpSampler::with_zero(scale)
UpSampler_with_zero(scale) == UpSamplerNew(scale, 0)

\* a phase update on every call of next, also one that returns None
UpSamplingAdvance_always(s, ret) == [s EXCEPT !.count = (s.count + 1) % s.scale]

\* the phase update of UpSampling::next: only when an element is returned
UpSamplingAdvance(s, ret) ==
    IF is_some(ret) THEN [s EXCEPT !.count = (s.count + 1) % s.scale] ELSE s

\* next that pulls the source at the last phase of a group, not the first
UpSamplingNext_fill_first(s, it) ==
    Bind(IF s.count % s.scale = s.scale - 1
         THEN IterNext(it)
         ELSE [ret |-> Some(s.with), it |-> it], LAMBDA r :
    [ret |-> r.ret, s |-> UpSamplingAdvance(s, r.ret), it |-> r.it])

\* UpSampling::next on the sampler s and the source iterator it: at phase 0
\* the source is pulled, otherwise the fill value is produced.
UpSamplingNext(s, it) ==
    Bind(IF s.count % s.scale = 0
         THEN IterNext(it)
         ELSE [ret |-> Some(s.with), it |-> it], LAMBDA r :
    [ret |-> r.ret, s |-> UpSamplingAdvance(s, r.ret), it |-> r.it])

\* a DownSampler that keeps every element
DownSamplerNew_keeps_all(scale) == [scale |-> 1, count |-> 0]

\* DownSampler::new(scale): count = 0
DownSamplerNew(scale) == [scale |-> scale, count |-> 0]

\* one round of `for _ in 0..scale` in DownSampling::next; `brk` is set by
\* the break on an exhausted source
DownSamplingRound(st, i) ==
    IF st.brk THEN st
    ELSE Bind(IterNext(st.it), LAMBDA r :
         IF ~is_some(r.ret) THEN [st EXCEPT !.brk = TRUE]
         ELSE [st EXCEPT
                 !.it  = r.it,
                 !.ret = IF st.s.count = 0 THEN r.ret ELSE st.ret,
                 !.s   = [st.s EXCEPT !.count = (st.s.count + 1) % st.s.scale]])

\* next that returns no element for a group the exhausted source cut short
DownSamplingNext_drops_partial(s, it) ==
    Bind(Iterate(DownSamplingRound,
                 [s |-> s, it |-> it, ret |-> None, brk |-> FALSE],
                 0, s.scale - 1), LAMBDA st :
    [ret |-> IF st.brk THEN None ELSE st.ret, s |-> st.s, it |-> st.it])

\* DownSampling::next
DownSamplingNext(s, it) ==
    Bind(Iterate(DownSamplingRound,
                 [s |-> s, it |-> it, ret |-> None, brk |-> FALSE],
                 0, s.scale - 1), LAMBDA st :
    [ret |-> st.ret, s |-> st.s, it |-> st.it])

\* one call of next by Iterator::collect, which stops at the first None
DownCollectStep(st, i) ==
    IF st.done THEN st
    ELSE Bind(DownSamplingNext(st.s, st.it), LAMBDA r :
         IF is_some(r.ret)
         THEN [st EXCEPT !.s = r.s, !.it = r.it, !.out = Append(st.out, r.ret[1])]
         ELSE [st EXCEPT !.s = r.s, !.it = r.it, !.done = TRUE])

\* an invocation that starts every source at phase 0
DownSamplerIter_resets(s, source) ==
    Bind(Iterate(DownCollectStep,
                 [s |-> [s EXCEPT !.count = 0], it |-> IterNew(source),
                  out |-> << >>, done |-> FALSE],
                 0, Len(source)), LAMBDA st :
    [out |-> st.out, s |-> st.s])

\* DownSampler::iter(source).collect(): every next returns an element or
\* ends the sequence, so Len(source) + 1 calls reach the None
DownSamplerIter(s, source) ==
    Bind(Iterate(DownCollectStep,
                 [s |-> s, it |-> IterNew(source), out |-> << >>, done |-> FALSE],
                 0, Len(source)), LAMBDA st :
    [out |-> st.out, s |-> st.s])

\* ----------------------------------------------------------- bands.rs

\* a Band whose analysis high-pass filter has the low-pass taps
BandNew_sign_slip ==
    [in_lowpass_filter   |-> HaarFilterNew(Half, Half),
     in_highpass_filter  |-> HaarFilterNew(Half, Half),
     out_lowpass_filter  |-> HaarFilterNew(One, One),
     out_highpass_filter |-> HaarFilterNew(One, -One),
     low_upsampler       |-> UpSampler_with_zero(2),
     low_downsampler     |-> DownSamplerNew(2),
     high_upsampler      |-> UpSampler_with_zero(2),
     high_downsampler    |-> DownSamplerNew(2)]

\* Band::new
BandNew ==
    [in_lowpass_filter   |-> HaarFilterNew(Half, Half),
     in_highpass_filter  |-> HaarFilterNew(-Half, Half),
     out_lowpass_filter  |-> HaarFilterNew(One, One),
     out_highpass_filter |-> HaarFilterNew(One, -One),
     low_upsampler       |-> UpSampler_with_zero(2),
     low_downsampler     |-> DownSamplerNew(2),
     high_upsampler      |-> UpSampler_with_zero(2),
     high_downsampler    |-> DownSamplerNew(2)]

\* the body of the filtering loop of Band::analysis, on element i
AnalysisBody(st, i) ==
    Bind(consume(st.fl, st.low[i]), LAMBDA l :
    Bind(consume(st.fh, st.high[i]), LAMBDA h :
    [fl |-> l.f, fh |-> h.f,
     low  |-> [st.low EXCEPT ![i] = l.ret],
     high |-> [st.high EXCEPT ![i] = h.ret]]))

\* an analysis whose filters are built anew for the call and not kept
analysis_transient(b, xs) ==
    Bind(Iterate(AnalysisBody,
                 [fl |-> HaarFilterNew(Half, Half), fh |-> HaarFilterNew(-Half, Half),
                  low |-> xs, high |-> xs],
                 1, Len(xs)), LAMBDA f :
    Bind(DownSamplerIter(b.low_downsampler, f.low), LAMBDA dl :
    Bind(DownSamplerIter(b.high_downsampler, f.high), LAMBDA dh :
    [band |-> [b EXCEPT !.low_downsampler = dl.s,
                        !.high_downsampler = dh.s],
     phase |-> [low |-> b.low_downsampler.count,
                high |-> b.high_downsampler.count],
     low  |-> dl.out,
     high |-> dh.out])))

\* Band::analysis; `phase` is the phase of the down-samplers before the call
analysis(b, xs) ==
    Bind(Iterate(AnalysisBody,
                 [fl |-> b.in_lowpass_filter, fh |-> b.in_highpass_filter,
                  low |-> xs, high |-> xs],
                 1, Len(xs)), LAMBDA f :
    Bind(DownSamplerIter(b.low_downsampler, f.low), LAMBDA dl :
    Bind(DownSamplerIter(b.high_downsampler, f.high), LAMBDA dh :
    [band |-> [b EXCEPT !.in_lowpass_filter = f.fl,
                        !.in_highpass_filter = f.fh,
                        !.low_downsampler = dl.s,
                        !.high_downsampler = dh.s],
     phase |-> [low |-> b.low_downsampler.count,
                high |-> b.high_downsampler.count],
     low  |-> dl.out,
     high |-> dh.out])))

\* an assignment that leaves out the high branch
SynthesisStore_low_only(st, i, l, h) ==
    Bind(consume(st.band.out_lowpass_filter, l), LAMBDA cl :
    Bind(consume(st.band.out_highpass_filter, h), LAMBDA ch :
    [st EXCEPT !.band.out_lowpass_filter = cl.f,
               !.band.out_highpass_filter = ch.f,
               !.out[i] = cl.ret,
               !.written = @ + 1]))

\* the assignment of the loop of Band::synthesis to output slot i
SynthesisStore(st, i, l, h) ==
    Bind(consume(st.band.out_lowpass_filter, l), LAMBDA cl :
    Bind(consume(st.band.out_highpass_filter, h), LAMBDA ch :
    [st EXCEPT !.band.out_lowpass_filter = cl.f,
               !.band.out_highpass_filter = ch.f,
               !.out[i] = cl.ret + ch.ret,
               !.written = @ + 1]))

\* One round of the loop of Band::synthesis over
\* zip(zip(low_up, high_up), out.iter_mut()).  Zip::next polls its left
\* side first: the low up-sampler, then the high one, then the output slot
\* i; the first None ends the loop, and what was polled before it stays
\* consumed.
SynthesisBody(st, i) ==
    IF st.done THEN st
    ELSE
    Bind(UpSamplingNext(st.band.low_upsampler, st.low), LAMBDA l :
    IF ~is_some(l.ret)
    THEN [st EXCEPT !.band.low_upsampler = l.s, !.low = l.it, !.done = TRUE]
    ELSE
    Bind(UpSamplingNext(st.band.high_upsampler, st.high), LAMBDA h :
    Bind([st EXCEPT !.band.low_upsampler = l.s, !.low = l.it,
                    !.band.high_upsampler = h.s, !.high = h.it], LAMBDA s2 :
    IF ~is_some(h.ret) \/ i > Len(st.out)
    THEN [s2 EXCEPT !.done = TRUE]
    ELSE SynthesisStore(s2, i, l.ret[1], h.ret[1]))))

\* Band::synthesis: the loop ends at the latest when the Len(out) + 1st
\* round finds no output slot; `written` counts the slots assigned
synthesis(b, low, high, out) ==
    Bind(Iterate(SynthesisBody,
                 [band |-> b, low |-> IterNew(low), high |-> IterNew(high),
                  out |-> out, written |-> 0, done |-> FALSE],
                 1, Len(out) + 1), LAMBDA st :
    [band |-> st.band, out |-> st.out, written |-> st.written])

\* Bands::new: N stages, each Band::new()
BandsNew(n) == [k \in 1..n |-> BandNew]

\* The caller's closure F: FnMut(&mut [T], usize).  A closure of the model
\* overwrites every element of the bands whose index is in cb.sel with
\* cb.val and leaves the other bands alone (sel = {} is the no-op closure).
closure(cb, data, index) ==
    IF index \in cb.sel THEN [i \in 1..Len(data) |-> cb.val] ELSE data

\* a synthesis on the bands as analysis left them
SynthesisInput_stale(analysed, edited) == analysed

\* what Band::synthesis is handed: lows.as_slice() / highs.as_slice() after
\* the closure (or the recursion) has run on them, not the analysis output
SynthesisInput(analysed, edited) == edited

\* the closure on this level's highs before the low branch
CallOrder_high_first(deeper, own) == own \o deeper

\* the order of the closure's invocations in one process_band: those of the
\* low branch (the residual band, or the recursion) first, then the one on
\* this level's highs
CallOrder(deeper, own) == deeper \o own

\* the end of Bands::process_band at stage `count`: the closure on highs,
\* then synthesis into the buffer; a is the analysis, r the low branch.
\* synth logs, deepest stage first, the stage, the length of its buffer, the
\* phase of its down-samplers before analysis, the lengths of the bands its
\* analysis returned and the slots synthesis wrote
ProcessBandEnd(a, r, buffer, cb, count) ==
    Bind(synthesis(r.bands[count + 1],
                   SynthesisInput(a.low, r.buffer),
                   SynthesisInput(a.high, closure(cb, a.high, count)),
                   buffer), LAMBDA s :
    [panic  |-> FALSE,
     bands  |-> [r.bands EXCEPT ![count + 1] = s.band],
     buffer |-> s.out,
     calls  |-> CallOrder(r.calls, << [index |-> count, len |-> Len(a.high)] >>),
     synth  |-> Append(r.synth, [level |-> count, len |-> Len(buffer),
                                 phase |-> a.phase,
                                 low |-> Len(a.low), high |-> Len(a.high),
                                 written |-> s.written])])

\* Bands::process_band.  bands[count] on an array of length N panics when
\* count >= N; stage `count` of the code is bands[count + 1] here.
RECURSIVE process_band(_, _, _, _, _)
process_band(bands, n, buffer, cb, count) ==
    IF count >= n
    THEN [panic |-> TRUE, bands |-> bands, buffer |-> buffer, calls |-> << >>,
          synth |-> << >>]
    ELSE
    Bind(analysis(bands[count + 1], buffer), LAMBDA a :
    Bind(IF count + 1 >= n
         THEN [panic |-> FALSE,
               bands |-> [bands EXCEPT ![count + 1] = a.band],
               buffer |-> closure(cb, a.low, count + 1),
               calls |-> << [index |-> count + 1, len |-> Len(a.low)] >>,
               synth |-> << >>]
         ELSE process_band([bands EXCEPT ![count + 1] = a.band], n, a.low, cb,
                           count + 1), LAMBDA r :
    IF r.panic THEN r ELSE ProcessBandEnd(a, r, buffer, cb, count)))

\* Bands::process
process(bands, n, buffer, cb) == process_band(bands, n, buffer, cb, 0)

\* i32 arithmetic of Bands::delay.  2_i32.pow(e) multiplies 2s in i32: with
\* overflow checks (a debug build) the product that leaves i32 panics, and
\* without them (a release build) it wraps modulo 2^32.
MaxI32 == 2147483647
MinI32 == -MaxI32 - 1

\* 2 * a overflows i32
DoubleOverflows(a) == a > MaxI32 \div 2 \/ a < MinI32 \div 2

\* 2 * a wrapped to i32 (the two's complement of the low 32 bits)
WrappingDouble(a) ==
    IF a > MaxI32 \div 2 THEN 2 * ((a + (MinI32 \div 2)) + (MinI32 \div 2))
    ELSE IF a < MinI32 \div 2
         THEN 2 * ((a - (MinI32 \div 2)) - (MinI32 \div 2))
         ELSE 2 * a

\* one multiplication by 2 of the power
PowBody(st, i) ==
    [value |-> WrappingDouble(st.value),
     overflow |-> st.overflow \/ DoubleOverflows(st.value)]

\* 2_i32.pow(e): the wrapped value, and whether a product overflowed
pow2_i32(e) == Iterate(PowBody, [value |-> 1, overflow |-> FALSE], 1, e)

\* `v as usize` for an i32 v on a 64-bit target: sign extension, as the
\* four 16-bit limbs of the usize, least significant first
Limb == 2 ^ 16
as_usize(v) ==
    <<v % Limb,
      ((v - (v % Limb)) \div Limb) % Limb,
      IF v < 0 THEN Limb - 1 ELSE 0,
      IF v < 0 THEN Limb - 1 ELSE 0>>

\* Bands::delay: every outcome a build can produce
delay(n) ==
    Bind(pow2_i32(n), LAMBDA p :
    IF p.overflow
    THEN {[panic |-> FALSE, value |-> as_usize(p.value)],
          [panic |-> TRUE, value |-> << >>]}
    ELSE {[panic |-> FALSE, value |-> as_usize(p.value)]})

\* the number a usize given by its limbs stands for, when it fits the
\* integers of the model
usize_value(limbs) == limbs[1] + Limb * limbs[2]

\* ------------------------------------------------------------- state

VARIABLES
    \* the filter bank: Bands<T, N>
    N,          \* the const generic N
    bands,      \* Bands::bands, stage k of the code at index k + 1
    \* the last call of process
    input,      \* the buffer as passed in
    buffer,     \* the buffer as left by the call
    cb,         \* the closure passed in
    calls,      \* the closure's invocations, in order: band index and length
    synth,      \* the stages' analysis/synthesis of the call, deepest first
    panicked,   \* the call panicked
    \* history of the bank
    called,     \* the caller still holds the buffer of the last call
    ncalls,     \* number of calls of process so far
    total,      \* number of samples handed to process so far
    aligned,    \* every call so far had a buffer length that is a multiple of 2^N
    allIn,      \* the inputs of the recorded calls, concatenated
    allOut,     \* the outputs of the recorded calls, concatenated
    lens,       \* the buffer lengths of the recorded calls
    \* Bands::delay
    delayRet,   \* the outcome of the last call of delay, NoDelay before it
    \* a DownSampler and its invocations
    down,       \* the DownSampler
    downSrc,    \* the sources of the invocations so far, concatenated
    downOut,    \* the elements emitted so far, concatenated
    downLast,   \* the last invocation: source, output, phase before it,
                \* and the source lengths of the invocations so far
    \* an UpSampler and its current invocation
    up,         \* the UpSampler
    upIter,     \* the source iterator of the current UpSampling, << >> if none
    upLog,      \* every pull so far: what it returned and what it found
    upRuns,     \* the sources and outputs of the invocations so far
    \* a HaarFilter and the calls of consume on it
    haar,       \* the HaarFilter
    haarTaps,   \* the arguments h0, h1 of HaarFilter::new
    haarIn,     \* the arguments of the calls of consume so far
    haarOut     \* the values the calls of consume returned

bankVars == <<N, bands, input, buffer, cb, calls, synth, panicked, called, ncalls,
              total, aligned, allIn, allOut, lens>>
delayVars == <<delayRet>>
downVars == <<down, downSrc, downOut, downLast>>
upVars == <<up, upIter, upLog, upRuns>>
haarVars == <<haar, haarTaps, haarIn, haarOut>>
vars == <<bankVars, delayVars, downVars, upVars, haarVars>>

\* ------------------------------------------------------------ bounds

\* the largest band count of a bank
MaxBands == 2
\* the longest buffer passed to process
MaxLen == 4
\* the number of process calls on one bank
MaxCalls == 2
\* the longest stream a bank is handed, over all its calls
MaxStream == 8
\* the sample values of a buffer, as integers
SampleValues == {0, 1}
\* the sample values of a recorded stream, as integers
StreamValues == {0, 1, 2}

Pow2(n) == 2 ^ n

\* the buffers of length len with sample values in vals
Buffers(len, vals) == [1..len -> {v * One : v \in vals}]
\* the buffer of len samples of value c
Const(len, c) == [i \in 1..len |-> c]

Noop == [sel |-> {}, val |-> 0]
MuteAll(n) == [sel |-> 0..n, val |-> 0]
\* the closures passed to process on a bank of n stages
Closures(n) == {Noop, MuteAll(n), [sel |-> {0}, val |-> One]}

\* ----------------------------------------------------- initial states

NoCall == [source |-> << >>, out |-> << >>, before |-> 0, runs |-> << >>]

BankInit(n) ==
    /\ N = n
    /\ bands = BandsNew(n)
    /\ input = << >> /\ buffer = << >> /\ cb = Noop /\ calls = << >>
    /\ synth = << >>
    /\ panicked = FALSE /\ called = FALSE /\ ncalls = 0 /\ total = 0
    /\ aligned = TRUE
    /\ allIn = << >> /\ allOut = << >> /\ lens = << >>

\* no call of delay yet
NoDelay == [panic |-> FALSE, value |-> << >>]
DelayIdle == delayRet = NoDelay

HaarInit(h0, h1) ==
    /\ haar = HaarFilterNew(h0, h1) /\ haarTaps = <<h0, h1>>
    /\ haarIn = << >> /\ haarOut = << >>

\* the filter of the specifications that are about something else
HaarIdle == HaarInit(0, 0)

DownInit(scale) ==
    /\ down = DownSamplerNew(scale)
    /\ downSrc = << >> /\ downOut = << >> /\ downLast = NoCall

UpInit(scale, with) ==
    /\ up = UpSamplerNew(scale, with)
    /\ upIter = << >> /\ upLog = << >> /\ upRuns = << >>

\* ----------------------------------------------------------- the bank

\* One call of Bands::process(buffer, closure); `record` adds the call to
\* the recorded stream.
ProcessCall(buf, c, record) ==
    \E r \in {process(bands, N, buf, c)} :
        /\ ~panicked
        /\ input' = buf
        /\ cb' = c
        /\ bands' = r.bands
        /\ buffer' = r.buffer
        /\ calls' = r.calls
        /\ synth' = r.synth
        /\ panicked' = r.panic
        /\ called' = TRUE
        /\ ncalls' = ncalls + 1
        /\ total' = total + Len(buf)
        /\ aligned' = (aligned /\ Len(buf) % Pow2(N) = 0)
        /\ allIn' = IF record THEN allIn \o buf ELSE allIn
        /\ allOut' = IF record THEN allOut \o r.buffer ELSE allOut
        /\ lens' = IF record THEN Append(lens, Len(buf)) ELSE lens
        /\ UNCHANGED <<N, delayVars, downVars, upVars, haarVars>>

\* process with any buffer and any closure, by a caller that holds no
\* buffer of an earlier call, within a stream of at most MaxStream samples
Process ==
    /\ ~called /\ ncalls < MaxCalls
    /\ \E len \in 0..MaxLen : total + len <= MaxStream /\ \E buf \in Buffers(len, SampleValues) : \E c \in Closures(N) :
          ProcessCall(buf, c, FALSE)

\* process on the next chunk of a stream: a no-op closure and a length that
\* is a positive multiple of 2^N
StreamProcess ==
    \E k \in 1..MaxStream :
        /\ total + k * Pow2(N) <= MaxStream
        /\ \E buf \in Buffers(k * Pow2(N), StreamValues) : ProcessCall(buf, Noop, TRUE)

\* the caller drops the buffer of the last call; the bank keeps its state
Drop ==
    /\ called /\ ~panicked
    /\ called' = FALSE
    /\ input' = << >> /\ buffer' = << >> /\ cb' = Noop /\ calls' = << >>
    /\ synth' = << >>
    /\ UNCHANGED <<N, bands, panicked, ncalls, total, aligned, allIn, allOut, lens,
                   delayVars, downVars, upVars, haarVars>>

\* Bands::delay(&self): no field is written
Delay ==
    /\ \E out \in delay(N) : delayRet' = out
    /\ UNCHANGED <<bankVars, downVars, upVars, haarVars>>

BankInitAny == \E n \in 0..MaxBands : BankInit(n)

Init == BankInitAny /\ DelayIdle /\ DownInit(2) /\ UpInit(2, 0) /\ HaarIdle
Next == Process \/ Drop
Spec == Init /\ [][Next]_vars

StreamInit ==
    /\ \E n \in 1..MaxBands : BankInit(n)
    /\ DelayIdle /\ DownInit(2) /\ UpInit(2, 0) /\ HaarIdle
StreamNext == StreamProcess
SpecStream == StreamInit /\ [][StreamNext]_vars

\* --------------------------------------------------- Bands::delay alone

\* the largest band count delay is called with: 2^N fits a 64-bit usize
MaxDelayBands == 63

DelayInit ==
    /\ \E n \in 0..MaxDelayBands : BankInit(n)
    /\ DelayIdle /\ DownInit(2) /\ UpInit(2, 0) /\ HaarIdle
DelayNext == Delay
SpecDelay == DelayInit /\ [][DelayNext]_vars

\* -------------------------------------------------- the scenario bank

\* Scenario B of the specification: Bands<f64, 6> on 1024 samples
ScenarioBands == 6
ScenarioLen == 1024
\* the calls of process of a reconstruction scenario (test_bands_reconstruct)
ScenarioCalls == 2
\* the buffer lengths and sample values of the scenario bank's calls
ScenarioLens == {ScenarioLen \div 16, ScenarioLen \div 4, ScenarioLen \div 2, ScenarioLen}
ScenarioValues == {1, 2, 3}

\* process on a constant buffer with the no-op closure
ScenarioProcess ==
    /\ ncalls < ScenarioCalls
    /\ \E len \in ScenarioLens : \E v \in ScenarioValues :
          ProcessCall(Const(len, v * One), Noop, TRUE)

ScenarioInit ==
    /\ BankInit(ScenarioBands)
    /\ DelayIdle /\ DownInit(2) /\ UpInit(2, 0) /\ HaarIdle
ScenarioNext == ScenarioProcess
SpecScenario == ScenarioInit /\ [][ScenarioNext]_vars

\* ------------------------------------------------------- the samplers

\* the largest scale of a sampler
MaxScale == 3
\* the longest source handed to a sampler
MaxSource == 3
\* the number of invocations of iter on one DownSampler
MaxRuns == 3
\* the number of invocations of iter on one UpSampler
MaxUpRuns == 2
\* the fill values of an UpSampler (the sources hold 1, 2, 3, ...)
FillValues == {0, -1}

\* The source of the next invocation: the next len numbers after the
\* `given` numbers of the earlier sources, so that every element ever
\* handed to the sampler is told apart.
NextSource(given, len) == [i \in 1..len |-> given + i]

\* sampler.iter(source).collect() on the DownSampler
DownRun ==
    /\ Len(downLast.runs) < MaxRuns
    /\ \E len \in 0..MaxSource :
         LET source == NextSource(Len(downSrc), len)
         IN  \E r \in {DownSamplerIter(down, source)} :
               /\ down' = r.s
               /\ downSrc' = downSrc \o source
               /\ downOut' = downOut \o r.out
               /\ downLast' = [source |-> source, out |-> r.out,
                               before |-> down.count,
                               runs |-> Append(downLast.runs, len)]
    /\ UNCHANGED <<bankVars, delayVars, upVars, haarVars>>

DownSpecInit ==
    /\ \E scale \in 1..MaxScale : DownInit(scale)
    /\ BankInit(0) /\ DelayIdle /\ UpInit(2, 0) /\ HaarIdle
DownNext == DownRun
SpecDown == DownSpecInit /\ [][DownNext]_vars

\* the elements handed to the UpSampler so far
UpGiven ==
    IF upRuns = << >> THEN 0
    ELSE LET last == upRuns[Len(upRuns)].source
         IN  IF last = << >> THEN upRuns[Len(upRuns)].given
             ELSE last[Len(last)]

\* sampler.iter(source): a new UpSampling borrows the sampler; the one
\* before it is dropped wherever its consumer stopped
UpIter ==
    /\ Len(upRuns) < MaxUpRuns
    /\ \E len \in 0..MaxSource :
         LET source == NextSource(UpGiven, len)
         IN  /\ upIter' = << IterNew(source) >>
             /\ upRuns' = Append(upRuns, [source |-> source, out |-> << >>,
                                          ended |-> FALSE, given |-> UpGiven])
    /\ UNCHANGED <<up, upLog, bankVars, delayVars, downVars, haarVars>>

\* one call of next on the current UpSampling, which has not yet reported
\* the end of the sequence
UpNext ==
    /\ upIter # << >>
    /\ ~upRuns[Len(upRuns)].ended
    /\ \E r \in {UpSamplingNext(up, upIter[1])} :
         /\ up' = r.s
         /\ upIter' = << r.it >>
         /\ upLog' = IF is_some(r.ret)
                     THEN Append(upLog, [val |-> r.ret[1], run |-> Len(upRuns),
                                         taken |-> upIter[1].pos,
                                         left |-> r.it.pos])
                     ELSE upLog
         /\ upRuns' = [upRuns EXCEPT ![Len(upRuns)] =
                         IF is_some(r.ret)
                         THEN [@ EXCEPT !.out = Append(@, r.ret[1])]
                         ELSE [@ EXCEPT !.ended = TRUE]]
    /\ UNCHANGED <<bankVars, delayVars, downVars, haarVars>>

UpSpecInit ==
    /\ \E scale \in 1..MaxScale : \E with \in FillValues : UpInit(scale, with)
    /\ BankInit(0) /\ DelayIdle /\ DownInit(2) /\ HaarIdle
UpSpecNext == UpIter \/ UpNext
SpecUp == UpSpecInit /\ [][UpSpecNext]_vars

\* ------------------------------------------------------ the Haar filter

\* the number of calls of consume on one filter
MaxConsume == 4
\* the taps Band::new gives its four filters, and 0
TapValues == {-One, -Half, 0, Half, One}
\* the samples handed to consume
HaarSamples == {-One, 0, One, 3 * One}

\* filter.consume(x)
Consume ==
    /\ Len(haarIn) < MaxConsume
    /\ \E x \in HaarSamples : \E r \in {consume(haar, x)} :
          /\ haar' = r.f
          /\ haarIn' = Append(haarIn, x)
          /\ haarOut' = Append(haarOut, r.ret)
    /\ UNCHANGED <<haarTaps, bankVars, delayVars, downVars, upVars>>

HaarSpecInit ==
    /\ \E h0 \in TapValues : \E h1 \in TapValues : HaarInit(h0, h1)
    /\ BankInit(0) /\ DelayIdle /\ DownInit(2) /\ UpInit(2, 0)
HaarNext == Consume
SpecHaar == HaarSpecInit /\ [][HaarNext]_vars

\* ------------------------------------------------------------- claims

\* the band indices the closure was called with, in order
CallIndices == [i \in 1..Len(calls) |-> calls[i].index]

\* xs holds only the value c
IsConst(xs, c) == \A i \in 1..Len(xs) : xs[i] = c

\* the value delay() returns on a bank of n stages when it does not panic
DelayOf(n) == usize_value((CHOOSE o \in delay(n) : ~o.panic).value)

\* C1: on a bank of N >= 1 stages one call of process, on any buffer (the
\* empty one too), calls the closure exactly N + 1 times, with the band
\* indices N, N-1, ..., 1, 0 in this order.
C1_CallbackOrder ==
    (called /\ N >= 1) =>
        /\ ~panicked
        /\ CallIndices = [i \in 1..(N + 1) |-> N + 1 - i]

C1_Witness ==
    called /\ N = 2 /\ input = << >> /\ CallIndices = <<2, 1, 0>>

\* C2 (as claimed): the first call of process on a fresh bank, with the
\* no-op closure and a length that is a multiple of 2^N, leaves
\* output[delay:] == input[:len-delay] with delay = delay() = 2^N, for
\* arbitrary sample values.
C2_IdentityUpToDelay ==
    Len(lens) = 1 =>
        \A i \in 1..(Len(input) - DelayOf(N)) : buffer[i + DelayOf(N)] = input[i]

\* C3: a stream of one value c, processed in chunks (lengths positive
\* multiples of 2^N) with the no-op closure: the first call leaves c at
\* every index >= delay() = 2^N, and every later call leaves its buffer
\* equal to its input.
C3_ConstantStream ==
    \A v \in StreamValues :
        (Len(lens) >= 1 /\ IsConst(allIn, v * One)) =>
            /\ \A i \in 1..lens[1] : i > DelayOf(N) => allOut[i] = v * One
            /\ Len(lens) >= 2 => buffer = input

C3_Witness ==
    /\ N = 1 /\ lens = <<4, 4>> /\ IsConst(allIn, 2 * One)
    /\ allOut[1] # 2 * One /\ buffer = Const(4, 2 * One)

\* the buffer of the call before the last one
PrevChunk ==
    SubSeq(allIn, Len(allIn) - Len(input) - lens[Len(lens) - 1] + 1,
           Len(allIn) - Len(input))

C5_ChunkInvariance ==
    Len(lens) >= 1 =>
        \A whole \in {process(BandsNew(N), N, allIn, Noop)} :
            /\ whole.buffer = allOut
            /\ whole.bands = bands

C5_Witness ==
    /\ N = 2 /\ lens = <<4, 4>>
    /\ allIn[4] # allIn[5] /\ allIn[1] # 0

\* 2 * l for a usize given by its limbs
DoubleLimbs(l, i) ==
    [k \in 1..Len(l) |->
        (2 * l[k] + (IF k > 1 THEN (2 * l[k - 1]) \div Limb ELSE 0)) % Limb]

\* 2^n as the limbs of a usize, for 2^n that fits it
Pow2Limbs(n) == Iterate(DoubleLimbs, <<1, 0, 0, 0>>, 1, n)

\* C6 (as claimed): for every band count N, delay() returns exactly 2^N.
C6_DelayIsPow2 ==
    delayRet # NoDelay =>
        /\ ~delayRet.panic
        /\ delayRet.value = Pow2Limbs(N)

\* C7: over fully drained invocations of iter on one DownSampler, the
\* elements emitted are, in order, the elements at the positions p with
\* p mod scale = 0 of the concatenated sources (p counted from 0).
C7_DownPhasePersists ==
    downOut = [k \in 1..((Len(downSrc) + down.scale - 1) \div down.scale) |->
                  downSrc[(k - 1) * down.scale + 1]]

C7_Witness ==
    /\ down.scale = 2 /\ downLast.runs = <<3, 3>>
    /\ downOut = <<1, 3, 5>> /\ downLast.out = <<5>> /\ downLast.before = 1

\* the source elements among the elements run k emitted (fills are <= 0)
SourceEmitted(k) == SelectSeq(upRuns[k].out, LAMBDA v : v > 0)

\* C8: over the invocations of iter on one UpSampler, each stopped after any
\* number of pulls, the element emitted at global position p is the next
\* unconsumed source element when p mod scale = 0 and the fill otherwise;
\* an invocation emits its source's elements in order, none skipped or
\* repeated; the phase counter is the number of elements emitted so far
\* mod scale.
C8_UpPhasePersists ==
    /\ up.count = Len(upLog) % up.scale
    /\ \A p \in 1..Len(upLog) :
          IF (p - 1) % up.scale = 0
          THEN /\ upLog[p].left = upLog[p].taken + 1
               /\ upLog[p].val = upRuns[upLog[p].run].source[upLog[p].taken + 1]
          ELSE /\ upLog[p].left = upLog[p].taken
               /\ upLog[p].val = up.with
    /\ \A k \in 1..Len(upRuns) :
          SourceEmitted(k) = SubSeq(upRuns[k].source, 1, Len(SourceEmitted(k)))

C8_Witness ==
    /\ up.scale = 3 /\ Len(upRuns) = 2
    /\ upRuns[1].out = <<1, up.with>> /\ ~upRuns[1].ended
    /\ upRuns[2].source = <<3, 4>> /\ upRuns[2].ended
    /\ upRuns[2].out = <<up.with, 3, up.with, up.with, 4, up.with, up.with>>

\* the UpSampler of the scenario, and its first source
UpScenario ==
    /\ up.scale = 2 /\ up.with = 0
    /\ Len(upRuns) >= 1 /\ upRuns[1].source = <<1, 2, 3>>

\* the second invocation ran over <<4, 5, 6>> to the end of the sequence
UpScenarioSecond ==
    Len(upRuns) >= 2 /\ upRuns[2].source = <<4, 5, 6>> /\ upRuns[2].ended

\* C9 (as claimed): UpSampler(2, 0) run to the end of the sequence over
\* <<1, 2, 3>> yields <<1, 0, 2, 0, 3>>, and a following run to the end over
\* <<4, 5, 6>> yields <<0, 4, 0, 5, 0, 6, 0>>.
C9_UpScenario_AsClaimed ==
    (UpScenario /\ upRuns[1].ended) =>
        /\ upRuns[1].out = <<1, 0, 2, 0, 3>>
        /\ UpScenarioSecond => upRuns[2].out = <<0, 4, 0, 5, 0, 6, 0>>

\* C9 (amended): UpSampler(2, 0) over <<1, 2, 3>> yields <<1, 0, 2, 0, 3>> in
\* its first five pulls and, run to the end of the sequence,
\* <<1, 0, 2, 0, 3, 0>>.  A following run to the end over <<4, 5, 6>> yields
\* <<0, 4, 0, 5, 0, 6, 0>> when the first run stopped after its fifth pull and
\* <<4, 0, 5, 0, 6, 0>> when the first run reached the end.
C9_UpScenario ==
    UpScenario =>
        /\ upRuns[1].out = SubSeq(<<1, 0, 2, 0, 3, 0>>, 1, Len(upRuns[1].out))
        /\ upRuns[1].ended => upRuns[1].out = <<1, 0, 2, 0, 3, 0>>
        /\ (UpScenarioSecond /\ Len(upRuns[1].out) = 5) =>
              upRuns[2].out = <<0, 4, 0, 5, 0, 6, 0>>
        /\ (UpScenarioSecond /\ upRuns[1].ended) =>
              upRuns[2].out = <<4, 0, 5, 0, 6, 0>>

C9_Witness ==
    /\ UpScenario /\ UpScenarioSecond
    /\ upRuns[1].out = <<1, 0, 2, 0, 3>> /\ ~upRuns[1].ended
    /\ upRuns[2].out = <<0, 4, 0, 5, 0, 6, 0>>

\* C10: with buffer lengths that are multiples of 2^N in this call and all
\* calls before it, a closure that overwrites each of the N + 1 bands with
\* zeros leaves every sample of the buffer zero: synthesis reads the bands
\* as the closure left them.
C10_MuteAll ==
    (called /\ N >= 1 /\ aligned /\ cb = MuteAll(N)) =>
        /\ Len(buffer) = Len(input)
        /\ \A i \in 1..Len(buffer) : buffer[i] = 0

C10_Witness ==
    /\ called /\ N = 2 /\ aligned /\ cb = MuteAll(2) /\ ncalls = 2
    /\ Len(input) = 4 /\ \A i \in 1..4 : input[i] = One /\ buffer[i] = 0

\* C11 (as claimed): in every call of process, on a buffer of any length and
\* after any earlier calls, the synthesis of every stage assigns every
\* position of that stage's buffer.
C11_SynthesisWritesAll ==
    (called /\ ~panicked) =>
        \A i \in 1..Len(synth) : synth[i].written = synth[i].len

\* C12 (as claimed): after any sequence of calls of process, on buffers of
\* any lengths, the phase of each stage's up-samplers equals the phase of
\* its down-samplers.
C12_SamplerAlignment ==
    \A k \in 1..Len(bands) :
        /\ bands[k].low_upsampler.count = bands[k].low_downsampler.count
        /\ bands[k].high_upsampler.count = bands[k].high_downsampler.count

\* C13 (as claimed): every call of a stage's analysis on an input of length
\* L, in any reachable state of the stage, returns a low band of length
\* ceil(L/2) and a high band of the same length.
C13_AnalysisLengths_AsClaimed ==
    (called /\ ~panicked) =>
        \A i \in 1..Len(synth) :
            /\ synth[i].low = (synth[i].len + 1) \div 2
            /\ synth[i].high = synth[i].low

\* C13 (amended): a call of a stage's analysis on an input of length L
\* returns a low band of length ceil(L/2) when the stage's down-samplers are
\* at phase 0 before the call and of length floor(L/2) when they are at
\* phase 1 (after an odd number of samples); the high band has the same
\* length.
C13_AnalysisLengths ==
    (called /\ ~panicked) =>
        \A i \in 1..Len(synth) :
            /\ synth[i].low = IF synth[i].phase.low = 0
                              THEN (synth[i].len + 1) \div 2
                              ELSE synth[i].len \div 2
            /\ synth[i].high = synth[i].low

C13_Witness ==
    /\ called /\ ~panicked /\ N = 2 /\ Len(synth) = 2
    /\ synth[2].len = 3 /\ synth[2].phase.low = 1 /\ synth[2].low = 1
    /\ synth[1].len = 1 /\ synth[1].phase.low = 0 /\ synth[1].low = 1

\* the last invocation on the DownSampler: the number of whole groups of
\* `scale` elements in its source, the length of the group the end of the
\* source cut short (0 if none), and the offset in a group of the element
\* consumed at phase 0
DownWhole == Len(downLast.source) \div down.scale
DownPartial == Len(downLast.source) % down.scale
DownOffset == (down.scale - downLast.before) % down.scale

\* C14 (as claimed): a group of an invocation's source that the end of the
\* source cuts short contributes no element to the invocation's output,
\* whatever the phase at which it began.
C14_PartialGroup_AsClaimed ==
    DownPartial # 0 => Len(downLast.out) = DownWhole

\* C14 (amended): a group that the end of the source cuts short contributes
\* its element consumed at phase 0 when it holds one (always when the
\* invocation began at phase 0: its first element), and nothing otherwise.
C14_PartialGroup ==
    DownPartial # 0 =>
        IF DownPartial > DownOffset
        THEN /\ Len(downLast.out) = DownWhole + 1
             /\ downLast.out[DownWhole + 1] =
                    downLast.source[DownWhole * down.scale + DownOffset + 1]
        ELSE Len(downLast.out) = DownWhole

C14_Witness ==
    /\ down.scale = 2 /\ downLast.runs = <<3>> /\ downLast.before = 0
    /\ downLast.source = <<1, 2, 3>> /\ downLast.out = <<1, 3>>

\* the current UpSampling has reported the end of the sequence
UpEnded == upRuns # << >> /\ upRuns[Len(upRuns)].ended

\* one step of the UpSampler: the phase changes only with an element
\* emitted, the source is pulled only at phase 0, and the pull that reports
\* the end of the sequence happens at phase 0 and leaves the sampler as it is
UpStepFrame ==
    /\ up'.count # up.count => Len(upLog') = Len(upLog) + 1
    /\ (Len(upRuns') = Len(upRuns) /\ upIter'[1].pos # upIter[1].pos) =>
          up.count = 0
    /\ (Len(upRuns') = Len(upRuns) /\ ~UpEnded /\ UpEnded') =>
          (up.count = 0 /\ up' = up /\ upLog' = upLog)

\* C15: the phase counter of an UpSampler advances only when next returns
\* an element: the source is pulled only at phase 0, a pull that finds it
\* exhausted returns None and leaves the phase as it is, so whenever an
\* UpSampling has reported the end of the sequence the phase is 0.
C15_UpPhaseFrame ==
    /\ [][UpStepFrame]_vars
    /\ [](UpEnded => up.count = 0)

C15_Witness ==
    /\ up.scale = 3 /\ Len(upRuns) = 2 /\ UpEnded /\ up.count = 0
    /\ upRuns[1].out = <<1>> /\ ~upRuns[1].ended
    /\ upRuns[2].out = <<up.with, up.with, 2, up.with, up.with>>

\* x_(i-1) of the samples handed to consume, with x_0 = 0
HaarBefore(i) == IF i = 1 THEN 0 ELSE haarIn[i - 1]

\* C16: the i-th call of consume on one HaarFilter(tap0, tap1) returns
\* tap0 * x_i + tap1 * x_(i-1), with x_0 = 0; after it the filter's memory
\* is x_i; the taps stay the ones of the construction.
C16_HaarConsume ==
    /\ Len(haarOut) = Len(haarIn)
    /\ \A i \in 1..Len(haarIn) :
          haarOut[i] = Mul(haarTaps[1], haarIn[i]) + Mul(haarTaps[2], HaarBefore(i))
    /\ haar.prev = HaarBefore(Len(haarIn) + 1)
    /\ haar.taps = haarTaps

C16_Witness ==
    /\ haarTaps = <<-Half, Half>> /\ haarIn = <<One, 3 * One, 0>>
    /\ haarOut = <<-Half, -One, 3 * Half>> /\ haar.prev = 0

\* C17: on a bank of one stage, with the no-op closure and buffers of even
\* length, the outputs of any sequence of calls, concatenated, are the
\* inputs, concatenated, delayed by one sample: out[n] = x[n-1], x[-1] = 0,
\* for arbitrary sample values.
C17_SingleStageDelay ==
    N = 1 =>
        allOut = [i \in 1..Len(allIn) |-> IF i = 1 THEN 0 ELSE allIn[i - 1]]

C17_Witness ==
    /\ N = 1 /\ lens = <<2, 4>>
    /\ allIn = <<One, 2 * One, 0, 2 * One, One, One>>
    /\ allOut = <<0, One, 2 * One, 0, 2 * One, One>>

\* the sum of the lengths of the first n bands the closure was shown
RECURSIVE BandLenSum(_)
BandLenSum(n) == IF n = 0 THEN 0 ELSE BandLenSum(n - 1) + calls[n].len

\* C18: on a bank of N >= 1 stages, in every call of process on a buffer
\* whose length L is a multiple of 2^N, after any earlier such calls, the
\* closure is shown the residual band (index N) with length L / 2^N and the
\* detail band k < N with length L / 2^(k+1): the lengths sum to L.
C18_CriticalSampling ==
    (called /\ N >= 1 /\ aligned) =>
        /\ ~panicked
        /\ \A i \in 1..Len(calls) :
              calls[i].len * Pow2(IF calls[i].index = N THEN N
                                  ELSE calls[i].index + 1) = Len(input)
        /\ BandLenSum(Len(calls)) = Len(input)

C18_Witness ==
    /\ called /\ N = 2 /\ aligned /\ ncalls = 2 /\ Len(input) = 4
    /\ calls = << [index |-> 2, len |-> 1], [index |-> 1, len |-> 1],
                  [index |-> 0, len |-> 2] >>

\* C19 (as claimed): for every N >= 0 and every buffer, process indexes only
\* stages k with 0 <= k < N: no call of process fails with an out-of-bounds
\* stage access.
C19_StageIndexValid ==
    called => ~panicked

\* C20: in every reachable state of a bank, after calls of process on
\* buffers of any lengths with closures that edit the bands, the low and the
\* high down-sampler of each stage have the same phase, and so have its low
\* and its high up-sampler.
C20_BranchPhasesEqual ==
    \A k \in 1..Len(bands) :
        /\ bands[k].low_downsampler.count = bands[k].high_downsampler.count
        /\ bands[k].low_upsampler.count = bands[k].high_upsampler.count

C20_Witness ==
    /\ called /\ ~panicked /\ N = 2 /\ ncalls = 2 /\ Len(input) = 3
    /\ cb = [sel |-> {0}, val |-> One]
    /\ bands[1].low_downsampler.count = 0 /\ bands[1].high_downsampler.count = 0
    /\ bands[2].low_downsampler.count = 1 /\ bands[2].high_downsampler.count = 1

====
